---------------------------- MODULE Spec2Model ----------------------------
(***************************************************************************)
(* Endpoint activation of echo_service (web/lifetime.py).                  *)
(*                                                                         *)
(* At startup the service reads every stored Endpoint and registers one    *)
(* route per record on the FastAPI application.  Each route's handler is   *)
(* the nested function dynamic_route, a Python closure over the local      *)
(* variable `endpoint` of the _activate_routes call that created it.       *)
(*                                                                         *)
(* An optional value (Optional[...] in the schema) is a sequence of        *)
(* length 0 (None) or 1.                                                   *)
(***************************************************************************)
EXTENDS Naturals, Sequences, FiniteSets, TLC

(* ------------------------------ bounds -------------------------------- *)

\* Largest number of records the storage holds.
MaxRecords == 2

\* Largest number of times the startup event fires on one application.
MaxRuns == 2

\* Largest number of management-API writes to the storage.
MaxMutations == 1

\* Verbs, paths and stored responses the model draws records from.
Verbs == {"GET", "POST"}

Paths == {"/ping", "/pong"}

Payloads == {"", "garbage"}

(* ---------------------------- data model ------------------------------ *)

\* schemas/base.py: class Methods
Methods == {"GET", "POST", "PUT", "PATCH", "DELETE"}

\* schemas/base.py: class Response (code, Optional headers, Optional body)
Response(code, headers, body) == [code |-> code, headers |-> headers, body |-> body]

Responses ==
    { Response(201, <<>>, <<"A">>),
      Response(404, << {<<"X-Tag", "b">>} >>, <<"B">>),
      Response(204, <<>>, <<>>) }

\* schemas/base.py: class Attributes (verb, path, response)
Attributes == [verb : Verbs \cap Methods, path : Paths, response : Responses]

\* The id the persistence layer gives the n-th record ever created.
FreshId(n) == "e" \o ToString(n)

\* An Endpoint row: DataResponse.id plus its attributes, read through the
\* get_id, get_verb, get_path, get_code, get_headers, get_body accessors.
Endpoint(id, attrs) ==
    [get_id |-> id, get_verb |-> attrs.verb, get_path |-> attrs.path,
     get_code |-> attrs.response.code, get_headers |-> attrs.response.headers,
     get_body |-> attrs.response.body]

\* Rows with the ids e1..en, in the order the repository returns them.
RECURSIVE Tables(_)
Tables(n) ==
    IF n = 0 THEN { <<>> }
    ELSE { Append(t, Endpoint(FreshId(n), a)) : t \in Tables(n - 1), a \in Attributes }

(* --------------------------- pure functions --------------------------- *)

\* utils.make_endpoint_name: the id behind a fixed namespace token.
RoutePrefix == "endpoint_"

make_endpoint_name(id) == RoutePrefix \o id

\* json.dumps of an Optional[str], as JSONResponse renders its content.
json_dumps(content) ==
    IF content = <<>> THEN "null" ELSE "\"" \o content[1] \o "\""

\* fastapi JSONResponse(content, headers, status_code): the body is the JSON
\* text of the content, the content type is added to the given headers.
JSONResponse(content, headers, status_code) ==
    [status_code |-> status_code,
     headers |-> {<<"content-type", "application/json">>}
                    \cup (IF headers = <<>> THEN {} ELSE headers[1]),
     body |-> json_dumps(content)]

(* ------------------------------- state -------------------------------- *)

VARIABLES
    storage,    \* the rows of the Endpoint table, in query order
    nextId,     \* number of the next id the persistence layer assigns
    muts,       \* management-API writes so far
    pc,         \* "idle", "query", "loop", "serving", "failed"
    runs,       \* _activate_routes calls so far; the current call's frame
    startup,    \* "pending", "running", "complete", "failed"
    exc,        \* the exception raised inside the current call, or "None"
    endpoints,  \* the current call's query result
    idx,        \* rows of the result the for loop has consumed
    cells,      \* cells[k]: the variable `endpoint` of frame k (Optional)
    routes,     \* app.router.routes: the dynamic routes, in order
    last        \* the last dispatch: matched route (0: none) and response

vars == <<storage, nextId, muts, pc, runs, startup, exc, endpoints, idx,
          cells, routes, last>>

db == <<storage, nextId, muts>>

(* ------------------------------ the router --------------------------- *)

\* The nested function object: it closes over the frame's cell, not over
\* the record the cell held when the function was defined.
dynamic_route_closure(frame) == [frame |-> frame]

\* A handler that copies the request payload into its answer.
CallHandler_echo(handler, req, cs) ==
    LET endpoint == cs[handler.frame][1]
    IN  JSONResponse(<<req.payload>>, endpoint.get_headers, endpoint.get_code)

\* Calling dynamic_route(req): reads `endpoint` from the enclosing frame at
\* call time; the request is not read.
CallHandler(handler, req, cs) ==
    LET endpoint == cs[handler.frame][1]
    IN  JSONResponse(endpoint.get_body, endpoint.get_headers, endpoint.get_code)

\* A router that keeps one route per path: a later registration replaces it.
add_route_by_path(rs, path, route, methods, name) ==
    Append(SelectSeq(rs, LAMBDA r : r.path # path),
           [path |-> path, endpoint |-> route, methods |-> methods, name |-> name])

\* A router that ignores a registration under a name it already holds.
add_route_unique_name(rs, path, route, methods, name) ==
    IF \E i \in 1..Len(rs) : rs[i].name = name
    THEN rs
    ELSE Append(rs, [path |-> path, endpoint |-> route, methods |-> methods, name |-> name])

\* A router that puts a new route in front of the others.
add_route_prepend(rs, path, route, methods, name) ==
    <<[path |-> path, endpoint |-> route, methods |-> methods, name |-> name]>> \o rs

\* app.add_route(path, route, methods, name): Starlette appends a Route; it
\* looks for no earlier route of the same name or path.
add_route(rs, path, route, methods, name) ==
    Append(rs, [path |-> path, endpoint |-> route, methods |-> methods, name |-> name])

\* A registration that names every route by the namespace token alone.
RegisterArgs_fixed_name(endpoint, frame) ==
    [path |-> endpoint.get_path,
     route |-> [frame |-> frame],
     methods |-> <<endpoint.get_verb>>,
     name |-> RoutePrefix]

\* The arguments of the app.add_route call of one loop iteration.
RegisterArgs(endpoint, frame) ==
    [path |-> endpoint.get_path,
     route |-> dynamic_route_closure(frame),
     methods |-> <<endpoint.get_verb>>,
     name |-> make_endpoint_name(endpoint.get_id)]

InMethods(r, verb) == \E k \in 1..Len(r.methods) : r.methods[k] = verb

\* Index of the first route matching path and verb, 0 if none does.
FullMatch(rs, verb, path) ==
    IF \E i \in 1..Len(rs) : rs[i].path = path /\ InMethods(rs[i], verb)
    THEN CHOOSE i \in 1..Len(rs) :
            /\ rs[i].path = path /\ InMethods(rs[i], verb)
            /\ \A j \in 1..(i - 1) : ~(rs[j].path = path /\ InMethods(rs[j], verb))
    ELSE 0

PlainText(code, text) ==
    [status_code |-> code,
     headers |-> {<<"content-type", "text/plain; charset=utf-8">>},
     body |-> text]

\* The router's answer to a request: the first full match's handler, else
\* 405 when only the path matches, else 404.
DispatchResponse(rs, cs, req) ==
    LET i == FullMatch(rs, req.verb, req.path)
    IN  IF i # 0 THEN CallHandler(rs[i].endpoint, req, cs)
        ELSE IF \E j \in 1..Len(rs) : rs[j].path = req.path
             THEN PlainText(405, "Method Not Allowed")
             ELSE PlainText(404, "Not Found")

Requests == [verb : Verbs, path : Paths, payload : Payloads]

(* ------------------------------ actions ------------------------------- *)

Init ==
    /\ storage \in UNION { Tables(n) : n \in 0..MaxRecords }
    /\ nextId = Len(storage) + 1
    /\ muts = 0
    /\ pc = "idle"
    /\ runs = 0
    /\ startup = "pending"
    /\ exc = "None"
    /\ endpoints = <<>>
    /\ idx = 0
    /\ cells = <<>>
    /\ routes = <<>>
    /\ last = [route |-> 0, response |-> PlainText(404, "Not Found")]

\* _startup up to the await of session.execute in _activate_routes: a new
\* frame whose `endpoint` is not bound yet.
Startup ==
    /\ pc \in {"idle", "serving"}
    /\ runs < MaxRuns
    /\ pc' = "query"
    /\ runs' = runs + 1
    /\ startup' = "running"
    /\ cells' = Append(cells, <<>>)
    /\ endpoints' = <<>>
    /\ idx' = 0
    /\ UNCHANGED <<db, exc, routes, last>>

\* A read that stops after the first row.
ExecuteSelect_partial(table) == IF table = <<>> THEN <<>> ELSE <<table[1]>>

\* session.execute(select(Endpoint)) returns: the result holds every row.
ExecuteSelect(table) == table

QueryOk ==
    /\ pc = "query"
    /\ endpoints' = ExecuteSelect(storage)
    /\ pc' = "loop"
    /\ UNCHANGED <<db, runs, startup, exc, idx, cells, routes, last>>

\* An activation that logs the error and lets startup go on.
OnQueryError_swallow(state) ==
    [state EXCEPT !.pc = "serving", !.startup = "complete", !.exc = "StorageUnavailable"]

\* What a raising session.execute leaves behind: nothing catches it, so it
\* leaves _activate_routes and _startup.
OnQueryError(state) ==
    [state EXCEPT !.pc = "failed", !.startup = "failed", !.exc = "StorageUnavailable"]

\* The registration failures an activation reports: add_route's result is
\* dropped and _activate_routes returns None, so there are none.
ActivationFailures == <<>>

QueryFail ==
    LET after == OnQueryError([pc |-> pc, startup |-> startup, exc |-> exc,
                               routes |-> routes, cells |-> cells])
    IN  /\ pc = "query"
        /\ pc' = after.pc
        /\ startup' = after.startup
        /\ exc' = after.exc
        /\ routes' = after.routes
        /\ cells' = after.cells
        /\ UNCHANGED <<db, runs, endpoints, idx, last>>

\* One iteration of `for endpoint in endpoints.scalars()`: bind the loop
\* variable, define dynamic_route, call app.add_route.
Register ==
    /\ pc = "loop"
    /\ idx < Len(endpoints)
    /\ LET endpoint == endpoints[idx + 1]
           args == RegisterArgs(endpoint, runs)
       IN  /\ cells' = [cells EXCEPT ![runs] = <<endpoint>>]
           /\ routes' = add_route(routes, args.path, args.route, args.methods, args.name)
    /\ idx' = idx + 1
    /\ UNCHANGED <<db, pc, runs, startup, exc, endpoints, last>>

\* The loop is exhausted: _activate_routes and _startup return, the
\* application starts serving.
Finish ==
    /\ pc = "loop"
    /\ idx = Len(endpoints)
    /\ pc' = "serving"
    /\ startup' = "complete"
    /\ UNCHANGED <<db, runs, exc, endpoints, idx, cells, routes, last>>

\* The router dispatches one request.
Dispatch ==
    /\ pc = "serving"
    /\ \E req \in Requests :
         last' = [route |-> FullMatch(routes, req.verb, req.path),
                  response |-> DispatchResponse(routes, cells, req)]
    /\ UNCHANGED <<db, pc, runs, startup, exc, endpoints, idx, cells, routes>>

\* Management API: a record is created; the persistence layer assigns its id.
CreateEndpoint ==
    /\ pc = "serving"
    /\ muts < MaxMutations
    /\ Len(storage) < MaxRecords
    /\ \E a \in Attributes : storage' = Append(storage, Endpoint(FreshId(nextId), a))
    /\ nextId' = nextId + 1
    /\ muts' = muts + 1
    /\ UNCHANGED <<pc, runs, startup, exc, endpoints, idx, cells, routes, last>>

\* Management API: a record's attributes are replaced.
UpdateEndpoint ==
    /\ pc = "serving"
    /\ muts < MaxMutations
    /\ \E i \in 1..Len(storage), a \in Attributes :
         /\ Endpoint(storage[i].get_id, a) # storage[i]
         /\ storage' = [storage EXCEPT ![i] = Endpoint(storage[i].get_id, a)]
    /\ muts' = muts + 1
    /\ UNCHANGED <<nextId, pc, runs, startup, exc, endpoints, idx, cells, routes, last>>

\* Management API: a record is deleted.
DeleteEndpoint ==
    /\ pc = "serving"
    /\ muts < MaxMutations
    /\ \E i \in 1..Len(storage) :
         storage' = [k \in 1..(Len(storage) - 1) |->
                        IF k < i THEN storage[k] ELSE storage[k + 1]]
    /\ muts' = muts + 1
    /\ UNCHANGED <<nextId, pc, runs, startup, exc, endpoints, idx, cells, routes, last>>

Next ==
    \/ Startup
    \/ QueryOk
    \/ QueryFail
    \/ Register
    \/ Finish
    \/ Dispatch

\* Startup, activation and dispatch; the storage is not written.
Spec == Init /\ [][Next]_vars

NextLive ==
    \/ Startup
    \/ QueryOk
    \/ QueryFail
    \/ Register
    \/ Finish
    \/ Dispatch
    \/ CreateEndpoint
    \/ UpdateEndpoint
    \/ DeleteEndpoint

\* The same, with the management API writing to the storage while serving.
SpecLive == Init /\ [][NextLive]_vars

(* ------------------------- vocabulary of the properties --------------- *)

Key(e) == <<e.get_path, e.get_verb>>

DistinctKeys(batch) ==
    \A i, j \in 1..Len(batch) : i # j => Key(batch[i]) # Key(batch[j])

DistinctIds(batch) ==
    \A i, j \in 1..Len(batch) : i # j => batch[i].get_id # batch[j].get_id

\* The routes whose handler was defined by the k-th activation, in order.
RoutesOf(k) == SelectSeq(routes, LAMBDA r : r.endpoint.frame = k)

\* The response a record stores, as a JSONResponse carries it.
Stored(e) == JSONResponse(e.get_body, e.get_headers, e.get_code)

\* The requests that match record e.
RequestsFor(e) == { req \in Requests : req.verb = e.get_verb /\ req.path = e.get_path }

\* i < j are the only two records of the batch with the same (path, verb).
OnlyCollision(batch, i, j) ==
    /\ i < j
    /\ Key(batch[i]) = Key(batch[j])
    /\ \A m, n \in 1..Len(batch) :
         (m < n /\ <<m, n>> # <<i, j>>) => Key(batch[m]) # Key(batch[n])

(* ------------------------------ properties ---------------------------- *)

\* C1: after the first activation of a batch of two or more records with
\* distinct (path, verb) pairs, a request matching record R is answered
\* with R's own stored code, headers and body, for every R of the batch.
C1_OwnResponse ==
    (pc = "serving" /\ runs = 1 /\ Len(endpoints) >= 2 /\ DistinctKeys(endpoints)) =>
        \A i \in 1..Len(endpoints) : \A req \in RequestsFor(endpoints[i]) :
            DispatchResponse(routes, cells, req) = Stored(endpoints[i])

\* C2: activating N records with pairwise distinct ids and (path, verb)
\* pairs adds exactly N routes, one per record, and reports no failure.
C2_AllRegistered ==
    (pc = "serving" /\ DistinctIds(endpoints) /\ DistinctKeys(endpoints)) =>
        LET mine == RoutesOf(runs)
        IN  /\ Len(mine) = Len(endpoints)
            /\ Len(routes) = runs * Len(endpoints)
            /\ \A i \in 1..Len(endpoints) :
                 Cardinality({ k \in 1..Len(mine) :
                                 /\ mine[k].path = endpoints[i].get_path
                                 /\ mine[k].methods = <<endpoints[i].get_verb>> }) = 1
            /\ Len(ActivationFailures) = 0
            /\ startup = "complete"
            /\ exc = "None"

C2_Witness ==
    /\ pc = "serving"
    /\ runs = 1
    /\ Len(endpoints) = 2
    /\ DistinctKeys(endpoints)
    /\ Len(routes) = 2

\* C3: when exactly two records of a batch of N collide on (path, verb),
\* activation registers N-1 routes, reports one conflict naming the later
\* of the two, completes, and every other record is answered with its own
\* response.
C3_PartialFailure ==
    \A i, j \in 1..Len(endpoints) :
        (pc = "serving" /\ runs = 1 /\ OnlyCollision(endpoints, i, j)) =>
            /\ Len(routes) = Len(endpoints) - 1
            /\ Len(ActivationFailures) = 1
            /\ ActivationFailures[1] = endpoints[j].get_id
            /\ startup = "complete"
            /\ \A k \in 1..Len(endpoints) : k # j =>
                 \A req \in RequestsFor(endpoints[k]) :
                    DispatchResponse(routes, cells, req) = Stored(endpoints[k])

C5_HandlerPurity ==
    /\ [](last.route # 0 =>
            \A req \in Requests :
               CallHandler(routes[last.route].endpoint, req, cells) = last.response)
    /\ [][last' # last =>
            /\ routes' = routes
            /\ \A i \in 1..Len(routes) : \A req \in Requests :
                 CallHandler(routes[i].endpoint, req, cells') =
                    CallHandler(routes[i].endpoint, req, cells)]_vars

C5_Witness ==
    /\ last.route # 0
    /\ Len(routes) >= 2
    /\ runs = 2

\* C6: once activation has completed, after any later write to the storage
\* the routing table is the one activation built and every route answers
\* with the response fields its own record had at activation time.
C6_SnapshotOfOwnRecord ==
    (pc = "serving" /\ runs = 1 /\ muts >= 1) =>
        /\ Len(routes) = Len(endpoints)
        /\ \A i \in 1..Len(routes) :
             /\ routes[i].path = endpoints[i].get_path
             /\ routes[i].methods = <<endpoints[i].get_verb>>
             /\ \A req \in Requests :
                  CallHandler(routes[i].endpoint, req, cells) = Stored(endpoints[i])

\* The part of C6 that does hold: a write to the storage changes neither the
\* routing table nor the answer of any handler.
StorageWriteFrame ==
    [][storage' # storage =>
         /\ routes' = routes
         /\ \A i \in 1..Len(routes) : \A req \in Requests :
              CallHandler(routes[i].endpoint, req, cells') =
                 CallHandler(routes[i].endpoint, req, cells)]_vars

\* C7: when the repository query fails, no route of that activation is in
\* the routing table, the loop variable was never bound, the error leaves
\* _startup, and a startup that completed saw no error.
C7_QueryFailureAborts ==
    /\ exc # "None" =>
         /\ pc = "failed"
         /\ startup = "failed"
         /\ Len(RoutesOf(runs)) = 0
         /\ cells[runs] = <<>>
         /\ Len(routes) = (runs - 1) * Len(storage)
    /\ startup = "complete" => exc = "None"

C7_Witness ==
    /\ exc = "StorageUnavailable"
    /\ runs = 2
    /\ Len(routes) = 2

\* C8: records with distinct ids are registered under distinct names: no
\* two routes of one activation share a name, and routes of different
\* activations that share a name carry the same path and methods.
C8_DistinctNames ==
    /\ \A m, n \in 1..(MaxRecords + MaxMutations) :
         m # n => make_endpoint_name(FreshId(m)) # make_endpoint_name(FreshId(n))
    /\ pc \in {"loop", "serving"} =>
         LET mine == RoutesOf(runs)
         IN  /\ Len(mine) = idx
             /\ \A i, j \in 1..idx :
                  endpoints[i].get_id # endpoints[j].get_id => mine[i].name # mine[j].name
    /\ \A i, j \in 1..Len(routes) :
         routes[i].name = routes[j].name =>
            /\ routes[i].endpoint.frame = routes[j].endpoint.frame => i = j
            /\ routes[i].path = routes[j].path
            /\ routes[i].methods = routes[j].methods

C8_Witness ==
    /\ pc = "serving"
    /\ runs = 1
    /\ Len(endpoints) = 2
    /\ Len(routes) = 2
    /\ Key(endpoints[1]) = Key(endpoints[2])

\* C9: the i-th registration of an activation carries the path, the
\* one-element method list and the name of the i-th record of the query
\* result; the registrations are the last entries of the routing table, in
\* that order, one per record consumed, and nothing else is registered.
C9_RegistrationOrder ==
    pc \in {"loop", "serving"} =>
        LET mine == RoutesOf(runs)
        IN  /\ Len(mine) = idx
            /\ pc = "serving" => idx = Len(endpoints)
            /\ Len(routes) = (runs - 1) * Len(storage) + idx
            /\ SubSeq(routes, Len(routes) - idx + 1, Len(routes)) = mine
            /\ \A i \in 1..idx :
                 /\ mine[i].path = endpoints[i].get_path
                 /\ mine[i].methods = <<endpoints[i].get_verb>>
                 /\ mine[i].name = make_endpoint_name(endpoints[i].get_id)

C9_Witness ==
    /\ pc = "loop"
    /\ idx = 1
    /\ Len(endpoints) = 2
    /\ Key(endpoints[1]) # Key(endpoints[2])
    /\ runs = 2

\* C10: no route of an activation is in the routing table before its query
\* has returned, and whenever one is, the query result is the complete
\* table; a failed read leaves only the complete sets of earlier runs.
C10_ReadBeforeRegister ==
    /\ pc \in {"query", "failed"} =>
         /\ Len(RoutesOf(runs)) = 0
         /\ Len(routes) = (runs - 1) * Len(storage)
    /\ pc = "loop" => endpoints = storage
    /\ Len(RoutesOf(runs)) > 0 => (pc \in {"loop", "serving"} /\ endpoints = storage)

C10_Witness ==
    /\ pc = "loop"
    /\ idx = 0
    /\ Len(endpoints) = 2
    /\ Len(routes) = 0

=============================================================================
